---------------------------- MODULE Spec2Model ----------------------------
(***************************************************************************)
(* A model of sea-canal's pattern layer (src/pattern.rs): the operation    *)
(* vocabulary PatternElem, the Pattern container, their derived ordering,  *)
(* their Display renderings, extend_each and has_repeating_types.          *)
(*                                                                         *)
(* Values.  A PatternElem is a record tagged by "kind"; a Pattern is the   *)
(* sequence of its elements (the Vec it wraps); a String is the sequence   *)
(* of its characters; an Option is None or Some(v).                        *)
(***************************************************************************)
EXTENDS Integers, Sequences, FiniteSets

VARIABLES pc, call, ret, cands, round, frontier, history

vars == <<pc, call, ret, cands, round, frontier, history>>

-----------------------------------------------------------------------------
(* Bounds of the model.                                                    *)

MaxLen == 4
MaxFmtLen == 2
MaxCmpLen == 2
MaxRecvLen == 2
MaxCands == 3
MaxRounds == 3

-----------------------------------------------------------------------------
(* i32.                                                                    *)

MaxI32 == 2147483647
MinI32 == (-MaxI32) - 1

-----------------------------------------------------------------------------
(* enum PatternElem, struct CustomPatternElem, struct Pattern.             *)

Const(i) == [kind |-> "Const", i |-> i]
Cube == [kind |-> "Cube"]
CubeRoot == [kind |-> "CubeRoot"]
Custom(c) == [kind |-> "Custom", custom |-> c]
Div(i) == [kind |-> "Div", i |-> i]
Meta(p) == [kind |-> "Meta", pat |-> p]
Mod(i) == [kind |-> "Mod", i |-> i]
Mult(i) == [kind |-> "Mult", i |-> i]
Plus(i) == [kind |-> "Plus", i |-> i]
Square == [kind |-> "Square"]
SquareRoot == [kind |-> "SquareRoot"]

\* CustomPatternElem::new: check is the fn pointer (its address), repr the label.
CustomPatternElem(check, repr) == [check |-> check, repr |-> repr]

\* Pattern::new wraps the vector it is given.
Pattern(elems) == elems

\* Pattern::empty
empty == Pattern(<<>>)

len(p) == Len(p)

is_empty(p) == Len(p) = 0

\* Option<i32>
None == [some |-> FALSE]
Some(v) == [some |-> TRUE, v |-> v]

-----------------------------------------------------------------------------
(* PatternElem::get_operand                                                *)

get_operand_with_const(e) ==
    IF e.kind \in {"Plus", "Mult", "Div", "Mod", "Const"} THEN Some(e.i) ELSE None

get_operand(e) ==
    IF e.kind \in {"Plus", "Mult", "Div", "Mod"} THEN Some(e.i) ELSE None

-----------------------------------------------------------------------------
(* PatternElem::same_operator_type                                         *)

\* A variant of the match in which operands must agree too.
same_operator_type_operands(a, b) ==
    CASE a.kind = "Custom" /\ b.kind = "Custom" -> a.custom = b.custom
      [] a.kind = "Const" /\ b.kind = "Const" -> a.i = b.i
      [] a.kind = "Cube" /\ b.kind = "Cube" -> TRUE
      [] a.kind = "CubeRoot" /\ b.kind = "CubeRoot" -> TRUE
      [] a.kind = "Div" /\ b.kind = "Div" -> a.i = b.i
      [] a.kind = "Mod" /\ b.kind = "Mod" -> a.i = b.i
      [] a.kind = "Mult" /\ b.kind = "Mult" -> a.i = b.i
      [] a.kind = "Plus" /\ b.kind = "Plus" -> a.i = b.i
      [] a.kind = "Square" /\ b.kind = "SquareRoot" -> TRUE
      [] a.kind = "SquareRoot" /\ b.kind = "SquareRoot" -> TRUE
      [] OTHER -> FALSE

\* A variant of the match with the arm (Square, Square) in place of
\* (Square, SquareRoot).
same_operator_type_square(a, b) ==
    CASE a.kind = "Custom" /\ b.kind = "Custom" -> a.custom = b.custom
      [] a.kind = "Const" /\ b.kind = "Const" -> TRUE
      [] a.kind = "Cube" /\ b.kind = "Cube" -> TRUE
      [] a.kind = "CubeRoot" /\ b.kind = "CubeRoot" -> TRUE
      [] a.kind = "Div" /\ b.kind = "Div" -> TRUE
      [] a.kind = "Mod" /\ b.kind = "Mod" -> TRUE
      [] a.kind = "Mult" /\ b.kind = "Mult" -> TRUE
      [] a.kind = "Plus" /\ b.kind = "Plus" -> TRUE
      [] a.kind = "Square" /\ b.kind = "Square" -> TRUE
      [] a.kind = "SquareRoot" /\ b.kind = "SquareRoot" -> TRUE
      [] OTHER -> FALSE

same_operator_type(a, b) ==
    CASE a.kind = "Custom" /\ b.kind = "Custom" -> a.custom = b.custom
      [] a.kind = "Const" /\ b.kind = "Const" -> TRUE
      [] a.kind = "Cube" /\ b.kind = "Cube" -> TRUE
      [] a.kind = "CubeRoot" /\ b.kind = "CubeRoot" -> TRUE
      [] a.kind = "Div" /\ b.kind = "Div" -> TRUE
      [] a.kind = "Mod" /\ b.kind = "Mod" -> TRUE
      [] a.kind = "Mult" /\ b.kind = "Mult" -> TRUE
      [] a.kind = "Plus" /\ b.kind = "Plus" -> TRUE
      [] a.kind = "Square" /\ b.kind = "SquareRoot" -> TRUE
      [] a.kind = "SquareRoot" /\ b.kind = "SquareRoot" -> TRUE
      [] OTHER -> FALSE

-----------------------------------------------------------------------------
(* Display.  A formatting call either returns the text written or panics.  *)

Ok(s) == [panic |-> FALSE, s |-> s]
Panicked == [panic |-> TRUE]

Digit(d) == <<"0", "1", "2", "3", "4", "5", "6", "7", "8", "9">>[d + 1]

RECURSIVE fmt_u32(_)
\* The decimal digits of n >= 0, most significant first.
fmt_u32(n) ==
    IF n < 10 THEN <<Digit(n)>> ELSE fmt_u32(n \div 10) \o <<Digit(n % 10)>>

\* Display for i32 ("{}" of an i32): a minus sign and the digits of the
\* magnitude when negative.  The magnitude of MinI32 is not an i32, so the
\* digits are taken from the negative number itself.
fmt_i32(i) ==
    IF i < 0
    THEN LET d == (10 - (i % 10)) % 10
             rest == -((i + d) \div 10)
         IN  <<"-">> \o (IF rest = 0 THEN <<>> ELSE fmt_u32(rest)) \o <<Digit(d)>>
    ELSE fmt_u32(i)

\* i32::abs.  -MinI32 overflows: the call panics in a build with overflow
\* checks and returns MinI32 in a build without them.
i32_abs(i, overflow_checks) ==
    IF i = MinI32
    THEN IF overflow_checks THEN [panic |-> TRUE] ELSE [panic |-> FALSE, v |-> MinI32]
    ELSE [panic |-> FALSE, v |-> IF i < 0 THEN -i ELSE i]

RECURSIVE fmt_pattern(_, _)
RECURSIVE fmt_elem(_, _)
\* impl Display for PatternElem
fmt_elem(e, overflow_checks) ==
    CASE e.kind = "Const" -> Ok(<<"=">> \o fmt_i32(e.i))
      [] e.kind = "Plus" /\ e.i < 0 ->
            LET a == i32_abs(e.i, overflow_checks)
            IN  IF a.panic THEN Panicked ELSE Ok(<<"-">> \o fmt_i32(a.v))
      [] e.kind = "Plus" /\ ~(e.i < 0) -> Ok(<<"+">> \o fmt_i32(e.i))
      [] e.kind = "Mult" -> Ok(<<"*">> \o fmt_i32(e.i))
      [] e.kind = "Div" -> Ok(<<"/">> \o fmt_i32(e.i))
      [] e.kind = "Mod" -> Ok(<<"%">> \o fmt_i32(e.i))
      [] e.kind = "Square" -> Ok(<<"^", "2">>)
      [] e.kind = "Cube" -> Ok(<<"^", "3">>)
      [] e.kind = "SquareRoot" -> Ok(<<"r", "o", "o", "t", " ", "2">>)
      [] e.kind = "CubeRoot" -> Ok(<<"r", "o", "o", "t", " ", "3">>)
      [] e.kind = "Custom" -> Ok(e.custom.repr)
      [] e.kind = "Meta" ->
            LET r == fmt_pattern(e.pat, overflow_checks)
            IN  IF r.panic THEN Panicked ELSE Ok(<<"[">> \o r.s \o <<".", ".", ".", "]">>)

RECURSIVE fmt_loop(_, _, _)
\* The loop of Pattern's fmt from index i (0-based) on: a ", " before every
\* element but the first, then the element.
fmt_loop(p, i, overflow_checks) ==
    IF i >= Len(p) THEN Ok(<<>>)
    ELSE LET sep == IF i # 0 THEN <<",", " ">> ELSE <<>>
             r == fmt_elem(p[i + 1], overflow_checks)
             rest == fmt_loop(p, i + 1, overflow_checks)
         IN  IF r.panic \/ rest.panic THEN Panicked ELSE Ok(sep \o r.s \o rest.s)

\* The loop with the separator written after every element.
fmt_pattern_trailing(p, overflow_checks) ==
    LET r == fmt_loop(p, 0, overflow_checks)
    IN  IF r.panic \/ Len(p) = 0 THEN r ELSE Ok(r.s \o <<",", " ">>)

\* impl Display for Pattern
fmt_pattern(p, overflow_checks) == fmt_loop(p, 0, overflow_checks)

-----------------------------------------------------------------------------
(* Pattern::extend_each                                                    *)

clone(v) == v
push(v, elem) == Append(v, elem)

\* The closure pushes onto one shared vector: every result is that vector
\* as it stands after the last push.
extend_each_shared(self, iter) ==
    [j \in 1..Len(iter) |-> Pattern(self \o iter)]

\* The closure inserts the element at the front instead of pushing it.
extend_each_front(self, iter) ==
    [j \in 1..Len(iter) |-> Pattern(<<iter[j]>> \o clone(self))]

\* iter.map(|elem| { let mut v = self.0.clone(); v.push(elem); Pattern::new(v) })
\*     .collect()
extend_each(self, iter) ==
    [j \in 1..Len(iter) |-> Pattern(push(clone(self), iter[j]))]

\* The receiver after extend_each(&self, iter): it is only read.
receiver_after_extend_each(self, iter) == self

-----------------------------------------------------------------------------
(* repeat::is_repeating_with_predicate and Pattern::has_repeating_types    *)

\* A predicate is passed as the function of its values on pairs of elements
\* of the slice.

\* Whether slice is its first k elements repeated, under eq.
block_repeats(slice, k, eq) ==
    \A i \in 0..(Len(slice) - 1) : eq[slice[i + 1], slice[(i % k) + 1]]

\* Only the proper divisors of the length are tried as block lengths.
is_repeating_with_predicate(slice, eq) ==
    LET n == Len(slice)
        divisors == {k \in 1..n : n % k = 0 /\ n \div k >= 2}
    IN  \E k \in divisors : block_repeats(slice, k, eq)

\* The closure is equality of elements instead of same_operator_type.
has_repeating_elems(self) ==
    LET elems == {self[i] : i \in 1..Len(self)}
    IN  is_repeating_with_predicate(self, [x \in elems, y \in elems |-> x = y])

\* is_repeating_with_predicate(&self.0, |x, y| x.same_operator_type(y))
has_repeating_types(self) ==
    LET elems == {self[i] : i \in 1..Len(self)}
    IN  is_repeating_with_predicate(
            self, [x \in elems, y \in elems |-> same_operator_type(x, y)])

-----------------------------------------------------------------------------
(* #[derive(PartialEq, Eq, PartialOrd, Ord)] on PatternElem,               *)
(* CustomPatternElem and Pattern.                                          *)

Less == "Less"
Equal == "Equal"
Greater == "Greater"

\* Ord for i32, usize, u8 and fn pointers (compared by address).
cmp_int(x, y) == IF x < y THEN Less ELSE IF x = y THEN Equal ELSE Greater

\* The byte of a character of a label.
byte(c) ==
    CASE c = " " -> 32
      [] c = "," -> 44
      [] c = "a" -> 97
      [] c = "b" -> 98

RECURSIVE cmp_str_from(_, _, _)
\* Ord for String: bytes in order, then the lengths.
cmp_str_from(s, t, i) ==
    IF i > Len(s) \/ i > Len(t) THEN cmp_int(Len(s), Len(t))
    ELSE LET c == cmp_int(byte(s[i]), byte(t[i]))
         IN  IF c # Equal THEN c ELSE cmp_str_from(s, t, i + 1)

cmp_str(s, t) == cmp_str_from(s, t, 1)

\* The derived Ord of CustomPatternElem: the fields in declaration order.
cmp_custom(c1, c2) ==
    LET c == cmp_int(c1.check, c2.check)
    IN  IF c # Equal THEN c ELSE cmp_str(c1.repr, c2.repr)

\* The variants in the order Plus, Mult swapped with Mod, Div.
discriminant_by_use(e) ==
    CASE e.kind = "Const" -> 0
      [] e.kind = "Cube" -> 1
      [] e.kind = "CubeRoot" -> 2
      [] e.kind = "Custom" -> 3
      [] e.kind = "Plus" -> 4
      [] e.kind = "Meta" -> 5
      [] e.kind = "Mult" -> 6
      [] e.kind = "Mod" -> 7
      [] e.kind = "Div" -> 8
      [] e.kind = "Square" -> 9
      [] e.kind = "SquareRoot" -> 10

\* The position of the variant in the enum's declaration.
discriminant(e) ==
    CASE e.kind = "Const" -> 0
      [] e.kind = "Cube" -> 1
      [] e.kind = "CubeRoot" -> 2
      [] e.kind = "Custom" -> 3
      [] e.kind = "Div" -> 4
      [] e.kind = "Meta" -> 5
      [] e.kind = "Mod" -> 6
      [] e.kind = "Mult" -> 7
      [] e.kind = "Plus" -> 8
      [] e.kind = "Square" -> 9
      [] e.kind = "SquareRoot" -> 10

RECURSIVE cmp_pattern(_, _)
RECURSIVE cmp_elem(_, _)
\* The derived Ord of PatternElem: the discriminants, then the payloads.
cmp_elem(a, b) ==
    IF discriminant(a) # discriminant(b)
    THEN cmp_int(discriminant(a), discriminant(b))
    ELSE CASE a.kind \in {"Const", "Div", "Mod", "Mult", "Plus"} -> cmp_int(a.i, b.i)
           [] a.kind = "Custom" -> cmp_custom(a.custom, b.custom)
           [] a.kind = "Meta" -> cmp_pattern(a.pat, b.pat)
           [] OTHER -> Equal

RECURSIVE cmp_vec_from(_, _, _)
\* Ord for Vec<PatternElem>: the elements in order, then the lengths.
cmp_vec_from(p, q, i) ==
    IF i > Len(p) \/ i > Len(q) THEN cmp_int(Len(p), Len(q))
    ELSE LET c == cmp_elem(p[i], q[i])
         IN  IF c # Equal THEN c ELSE cmp_vec_from(p, q, i + 1)

\* The derived Ord of Pattern: that of the vector it wraps.
cmp_pattern(p, q) == cmp_vec_from(p, q, 1)

-----------------------------------------------------------------------------
(* The values the operations are called on.                                *)

Operands == {MinI32, -4, -1, 0, 4, MaxI32}

\* Two functions (their addresses) and three labels.
FnPtrs == {1, 2}
Labels == {<<"a">>, <<"a", "b">>, <<"b">>}
Customs == {CustomPatternElem(f, l) : f \in FnPtrs, l \in Labels}

Nested == {empty, Pattern(<<Plus(-4)>>), Pattern(<<Plus(4), Square>>),
           Pattern(<<Meta(empty)>>)}

Elems ==
    {Const(i) : i \in Operands} \cup {Div(i) : i \in Operands}
        \cup {Mod(i) : i \in Operands} \cup {Mult(i) : i \in Operands}
        \cup {Plus(i) : i \in Operands}
        \cup {Cube, CubeRoot, Square, SquareRoot}
        \cup {Custom(c) : c \in Customs} \cup {Meta(p) : p \in Nested}

\* Elements for the calls that take three of them.
OrdElems ==
    {Const(-4), Const(4), Div(4), Mod(4), Mult(4), Plus(-4), Plus(4),
     Cube, CubeRoot, Square, SquareRoot,
     Custom(CustomPatternElem(1, <<"b">>)), Custom(CustomPatternElem(2, <<"a">>)),
     Custom(CustomPatternElem(2, <<"a", "b">>)),
     Meta(empty), Meta(Pattern(<<Plus(4)>>)), Meta(Pattern(<<Plus(4), Square>>))}

\* Elements of the patterns whose operator types are examined.
TypeElems ==
    {Plus(1), Plus(2), Plus(5), Mult(2), Mult(9), Square, SquareRoot, Cube, CubeRoot,
     Meta(empty), Custom(CustomPatternElem(1, <<"a">>))}

\* Elements of the patterns that are rendered.
FmtElems ==
    {Plus(4), Plus(MinI32), Mod(-6), Square,
     Custom(CustomPatternElem(1, <<"a", ",", " ", "b">>)),
     Meta(Pattern(<<Plus(4), Mod(-6)>>)), Meta(Pattern(<<Plus(MinI32)>>)), Meta(empty)}

\* Elements of the patterns that are compared.
CmpElems == {Plus(-4), Plus(4), Square, Meta(empty), Meta(Pattern(<<Plus(4)>>))}

\* Elements of the patterns that are extended, and of the candidates.
ExtElems == {Plus(3), Mult(2), Div(2), Div(3)}

\* The patterns (vectors) of at most n elements of S.
PatternsOf(S, n) == UNION {[1..m -> S] : m \in 0..n}

-----------------------------------------------------------------------------
(* The calls.  A behaviour of Spec is one call of one operation: the call  *)
(* and its arguments are fixed initially, the operation's action computes  *)
(* what it returns.                                                        *)

NoSearch ==
    /\ cands = <<>>
    /\ round = 0
    /\ frontier = <<>>
    /\ history = <<>>

Init ==
    /\ pc = "call"
    /\ ret = <<>>
    /\ NoSearch
    /\ \/ call \in {[op |-> "get_operand", self |-> e] : e \in Elems}
       \/ call \in {[op |-> "same_operator_type", self |-> a, other |-> b] :
                        a \in Elems, b \in Elems}
       \/ call \in {[op |-> "fmt_elem", self |-> e] : e \in Elems}
       \/ call \in {[op |-> "fmt_pattern", self |-> p] :
                        p \in PatternsOf(FmtElems, MaxFmtLen)}
       \/ call \in {[op |-> "cmp_elem", a |-> a, b |-> b, c |-> c] :
                        a \in OrdElems, b \in OrdElems, c \in OrdElems}
       \/ call \in {[op |-> "cmp_pattern", p |-> p, q |-> q] :
                        p \in PatternsOf(CmpElems, MaxCmpLen),
                        q \in PatternsOf(CmpElems, MaxCmpLen)}
       \/ call \in {[op |-> "extend_each", self |-> p, iter |-> c] :
                        p \in PatternsOf(ExtElems, MaxRecvLen),
                        c \in PatternsOf(ExtElems, MaxCands)}
       \/ call \in {[op |-> "has_repeating_types", self |-> p] :
                        p \in PatternsOf(TypeElems, MaxLen)}

Called(op) == pc = "call" /\ call.op = op

Returns(value) ==
    /\ ret' = value
    /\ pc' = "return"
    /\ UNCHANGED <<call, cands, round, frontier, history>>

GetOperand ==
    /\ Called("get_operand")
    /\ Returns(get_operand(call.self))

SameOperatorType ==
    /\ Called("same_operator_type")
    /\ Returns(same_operator_type(call.self, call.other))

\* format!("{}", elem), in a build with or without overflow checks.
FmtElem ==
    /\ Called("fmt_elem")
    /\ \E overflow_checks \in BOOLEAN :
           Returns([overflow_checks |-> overflow_checks,
                    out |-> fmt_elem(call.self, overflow_checks)])

\* format!("{}", pattern), in a build with or without overflow checks.
FmtPattern ==
    /\ Called("fmt_pattern")
    /\ \E overflow_checks \in BOOLEAN :
           Returns([overflow_checks |-> overflow_checks,
                    out |-> fmt_pattern(call.self, overflow_checks)])

\* The comparisons a sort makes among three elements, and a == b.
CmpElem ==
    /\ Called("cmp_elem")
    /\ Returns([ab |-> cmp_elem(call.a, call.b), ba |-> cmp_elem(call.b, call.a),
                bc |-> cmp_elem(call.b, call.c), ac |-> cmp_elem(call.a, call.c),
                eq |-> (call.a = call.b)])

\* The comparisons of two patterns, either way round, and p == q.
CmpPattern ==
    /\ Called("cmp_pattern")
    /\ Returns([pq |-> cmp_pattern(call.p, call.q),
                qp |-> cmp_pattern(call.q, call.p),
                eq |-> (call.p = call.q)])

\* The patterns returned and the receiver as the call leaves it.
ExtendEach ==
    /\ Called("extend_each")
    /\ Returns([pats |-> extend_each(call.self, call.iter),
                self |-> receiver_after_extend_each(call.self, call.iter)])

HasRepeatingTypes ==
    /\ Called("has_repeating_types")
    /\ Returns(has_repeating_types(call.self))

Next ==
    \/ GetOperand
    \/ SameOperatorType
    \/ FmtElem
    \/ FmtPattern
    \/ CmpElem
    \/ CmpPattern
    \/ ExtendEach
    \/ HasRepeatingTypes

Spec == Init /\ [][Next]_vars

-----------------------------------------------------------------------------
(* The search engine's growth of candidates: from the empty pattern, each  *)
(* round replaces every pattern of the round by its extend_each over the   *)
(* candidate operations.                                                   *)

\* The lists of at most n pairwise-distinct elements of S.
DistinctLists(S, n) ==
    {c \in PatternsOf(S, n) : \A i, j \in 1..Len(c) : c[i] = c[j] => i = j}

RECURSIVE Flatten(_)
Flatten(ss) == IF ss = <<>> THEN <<>> ELSE Head(ss) \o Flatten(Tail(ss))

InitGrow ==
    /\ pc = "search"
    /\ call = [op |-> "search"]
    /\ ret = <<>>
    /\ cands \in DistinctLists(ExtElems, MaxCands)
    /\ round = 0
    /\ frontier = <<empty>>
    /\ history = <<>>

\* One round.  history records the round's patterns as they were before and
\* as they are after being extended.
Grow ==
    /\ pc = "search"
    /\ round < MaxRounds
    /\ round' = round + 1
    /\ frontier' = Flatten([j \in 1..Len(frontier) |-> extend_each(frontier[j], cands)])
    /\ history' = Append(history,
           [before |-> frontier,
            after |-> [j \in 1..Len(frontier) |->
                          receiver_after_extend_each(frontier[j], cands)]])
    /\ UNCHANGED <<pc, call, ret, cands>>

NextGrow == Grow

SpecGrow == InitGrow /\ [][NextGrow]_vars

-----------------------------------------------------------------------------
(* The claims.                                                             *)

Returned(op) == pc = "return" /\ call.op = op

\* C1: extend_each returns one pattern per candidate, in the candidates'
\* order, the j-th being the receiver's elements followed by the j-th
\* candidate (length len + 1); the receiver has the same elements after the
\* call; no candidates give the empty list.
C1_ExtendEachAppendsEach ==
    Returned("extend_each") =>
        LET p == call.self
            c == call.iter
        IN  /\ Len(ret.pats) = Len(c)
            /\ \A j \in 1..Len(c) :
                  /\ len(ret.pats[j]) = len(p) + 1
                  /\ SubSeq(ret.pats[j], 1, Len(p)) = p
                  /\ ret.pats[j][Len(p) + 1] = c[j]
            /\ ret.self = p
            /\ (is_empty(c) => ret.pats = <<>>)

C1_Witness ==
    /\ Returned("extend_each")
    /\ call.self = <<Plus(3), Mult(2)>>
    /\ call.iter = <<Div(2), Div(3)>>
    /\ ret.pats = << <<Plus(3), Mult(2), Div(2)>>, <<Plus(3), Mult(2), Div(3)>> >>
    /\ ret.self = <<Plus(3), Mult(2)>>

\* C2: has_repeating_types() is true exactly when some block length k with
\* 1 <= k < n dividing n has same_operator_type(elem[i], elem[i mod k]) for
\* every index i in [0, n); it is false for length 0 and 1 and for
\* [Plus(1), Mult(2), SquareRoot].
C2_RepeatingIffBlock ==
    Returned("has_repeating_types") =>
        LET p == call.self
            n == Len(p)
        IN  /\ ret <=> \E k \in 1..(n - 1) :
                          /\ n % k = 0
                          /\ \A i \in 0..(n - 1) :
                                same_operator_type(p[i + 1], p[(i % k) + 1])
            /\ (n <= 1 => ret = FALSE)
            /\ (p = <<Plus(1), Mult(2), SquareRoot>> => ret = FALSE)

C2_Witness ==
    /\ Returned("has_repeating_types")
    /\ call.self = <<SquareRoot, Cube, SquareRoot, Cube>>
    /\ ret = TRUE

\* C3: same_operator_type is reflexive and symmetric over all operations.
C3_SameTypeReflexiveSymmetric ==
    Returned("same_operator_type") =>
        /\ (call.self = call.other => ret = TRUE)
        /\ ret = same_operator_type(call.other, call.self)

\* The patterns with the same variant as p at every position, differing at
\* most in integer operands.
RECURSIVE SameVariants(_)
SameVariants(p) ==
    IF p = <<>> THEN {<<>>}
    ELSE LET h == Head(p)
             hs == IF h.kind \in {"Plus", "Mult", "Div", "Mod", "Const"}
                   THEN {e \in TypeElems : e.kind = h.kind}
                   ELSE {h}
         IN  {<<e>> \o t : e \in hs, t \in SameVariants(Tail(p))}

\* C4: operand values do not affect has_repeating_types: patterns with the
\* same variant at every position get the same result; the result is true
\* for [Plus(1), Mult(2), Plus(5), Mult(9)].
C4_OperandsDoNotMatter ==
    Returned("has_repeating_types") =>
        /\ \A q \in SameVariants(call.self) : has_repeating_types(q) = ret
        /\ (call.self = <<Plus(1), Mult(2), Plus(5), Mult(9)>> => ret = TRUE)

C4_Witness ==
    /\ Returned("has_repeating_types")
    /\ call.self = <<Plus(1), Mult(2), Plus(5), Mult(9)>>
    /\ <<Plus(2), Mult(9), Plus(1), Mult(2)>> \in SameVariants(call.self)
    /\ ret = TRUE

\* C5: get_operand returns Some(i) for Plus(i), Mult(i), Div(i), Mod(i) and
\* None for every other variant, Const(i) included.
C5_GetOperand ==
    Returned("get_operand") =>
        LET e == call.self
        IN  /\ ret.some <=> e.kind \in {"Plus", "Mult", "Div", "Mod"}
            /\ (ret.some => ret.v = e.i)
            /\ (e.kind \in {"Const", "Square", "Cube", "SquareRoot", "CubeRoot",
                            "Meta", "Custom"} => ret = None)

C5_Witness ==
    /\ Returned("get_operand")
    /\ call.self = Const(4)
    /\ ret = None

\* The decimal digits of |i|, for every i32 i.
MagnitudeDigits(i) == IF i < 0 THEN Tail(fmt_i32(i)) ELSE fmt_i32(i)

\* C6: rendering an operation never fails, for every i32 operand: Plus(i) is
\* "+i" for i >= 0 and "-" followed by |i| for i < 0, MinI32 included;
\* Mult, Div, Mod and Const render the operand with its own sign after "*",
\* "/", "%", "=".
C6_RenderingTotal ==
    Returned("fmt_elem") =>
        LET e == call.self
        IN  /\ ~ret.out.panic
            /\ (e.kind = "Plus" =>
                  ret.out.s = (IF e.i >= 0 THEN <<"+">> ELSE <<"-">>)
                                  \o MagnitudeDigits(e.i))
            /\ (e.kind = "Mult" => ret.out.s = <<"*">> \o fmt_i32(e.i))
            /\ (e.kind = "Div" => ret.out.s = <<"/">> \o fmt_i32(e.i))
            /\ (e.kind = "Mod" => ret.out.s = <<"%">> \o fmt_i32(e.i))
            /\ (e.kind = "Const" => ret.out.s = <<"=">> \o fmt_i32(e.i))

\* The texts rs joined by ", ".
RECURSIVE Joined(_)
Joined(rs) ==
    IF rs = <<>> THEN <<>>
    ELSE IF Len(rs) = 1 THEN rs[1]
    ELSE Joined(SubSeq(rs, 1, Len(rs) - 1)) \o <<",", " ">> \o rs[Len(rs)]

RECURSIVE TotalLen(_)
TotalLen(rs) == IF rs = <<>> THEN 0 ELSE Len(Head(rs)) + TotalLen(Tail(rs))

\* C7: a pattern of n elements renders as its elements' renderings, in
\* order, joined by ", ": n - 1 separators for n >= 1, none leading or
\* trailing, and "" for the empty pattern (when an element's rendering
\* fails there is no rendering of the pattern either); Meta(p) renders as
\* "[" + render(p) + "...]".
C7_PatternRendering ==
    /\ Returned("fmt_pattern") =>
          LET p == call.self
              n == Len(p)
              r == [i \in 1..n |-> fmt_elem(p[i], ret.overflow_checks)]
              failed == \E i \in 1..n : r[i].panic
              texts == [i \in 1..n |-> r[i].s]
          IN  /\ ret.out.panic <=> failed
              /\ ~failed =>
                    /\ ret.out.s = Joined(texts)
                    /\ Len(ret.out.s) =
                          TotalLen(texts) + (IF n >= 1 THEN 2 * (n - 1) ELSE 0)
                    /\ (n = 0 => ret.out.s = <<>>)
                    /\ (n >= 1 =>
                          /\ SubSeq(ret.out.s, 1, Len(texts[1])) = texts[1]
                          /\ SubSeq(ret.out.s, Len(ret.out.s) - Len(texts[n]) + 1,
                                    Len(ret.out.s)) = texts[n])
    /\ (Returned("fmt_elem") /\ call.self.kind = "Meta") =>
          LET inner == fmt_pattern(call.self.pat, ret.overflow_checks)
          IN  /\ ret.out.panic <=> inner.panic
              /\ ~inner.panic =>
                    ret.out.s = <<"[">> \o inner.s \o <<".", ".", ".", "]">>

C7_Witness ==
    /\ Returned("fmt_pattern")
    /\ call.self = <<Plus(4), Mod(-6)>>
    /\ ret.out = Ok(<<"+", "4", ",", " ", "%", "-", "6">>)

\* The kinds in alphabetical order, as the enum declares them.
KindOrder ==
    <<"Const", "Cube", "CubeRoot", "Custom", "Div", "Meta", "Mod", "Mult",
      "Plus", "Square", "SquareRoot">>

KindRank(kind) == CHOOSE i \in 1..Len(KindOrder) : KindOrder[i] = kind

\* C8: the ordering of operations is a total order consistent with
\* equality (exactly one of a < b, a = b, b < a; transitive); operations of
\* different kinds are ordered by the alphabetical rank of the kind whatever
\* the payload, operations of one kind by payload.  Patterns are ordered
\* lexicographically, a proper prefix being smaller, and compare equal
\* exactly when they have the same length and pairwise-equal elements.
C8_TotalOrder ==
    /\ Returned("cmp_elem") =>
          LET a == call.a
              b == call.b
          IN  /\ ret.ab \in {Less, Equal, Greater}
              /\ (ret.ab = Equal) <=> ret.eq
              /\ (ret.ab = Equal) <=> (ret.ba = Equal)
              /\ (ret.ab = Less) <=> (ret.ba = Greater)
              /\ (ret.ab = Less /\ ret.bc = Less) => ret.ac = Less
              /\ a.kind # b.kind =>
                    ((ret.ab = Less) <=> (KindRank(a.kind) < KindRank(b.kind)))
              /\ (a.kind = b.kind
                    /\ a.kind \in {"Const", "Div", "Mod", "Mult", "Plus"}) =>
                    ((ret.ab = Less) <=> (a.i < b.i))
              /\ (a.kind = b.kind /\ a.kind = "Custom") =>
                    ((ret.ab = Less) <=>
                        \/ a.custom.check < b.custom.check
                        \/ /\ a.custom.check = b.custom.check
                           /\ cmp_str(a.custom.repr, b.custom.repr) = Less)
              /\ (a.kind = b.kind /\ a.kind = "Meta") =>
                    ret.ab = cmp_pattern(a.pat, b.pat)
    /\ Returned("cmp_pattern") =>
          LET p == call.p
              q == call.q
              m == IF Len(p) < Len(q) THEN Len(p) ELSE Len(q)
              diff == {i \in 1..m : p[i] # q[i]}
              first == CHOOSE i \in diff : \A j \in diff : i <= j
          IN  /\ IF diff # {}
                 THEN ret.pq = cmp_elem(p[first], q[first])
                 ELSE ret.pq = cmp_int(Len(p), Len(q))
              /\ (Len(p) < Len(q) /\ SubSeq(q, 1, Len(p)) = p) => ret.pq = Less
              /\ (ret.pq = Equal) <=>
                    (Len(p) = Len(q) /\ \A i \in 1..Len(p) : p[i] = q[i])
              /\ (ret.pq = Equal) <=> ret.eq
              /\ (ret.pq = Less) <=> (ret.qp = Greater)

C8_Witness ==
    /\ Returned("cmp_elem")
    /\ call.a = Mult(4)
    /\ call.b = Plus(-4)
    /\ call.c = Square
    /\ ret.ab = Less
    /\ ret.bc = Less
    /\ ret.ac = Less

RECURSIVE Pow(_, _)
Pow(b, e) == IF e = 0 THEN 1 ELSE b * Pow(b, e - 1)

\* C9: starting from the empty pattern and extending every pattern of the
\* round by each of the pairwise-distinct candidates, after r rounds every
\* pattern has length r, the patterns are exactly the |C|^r sequences of
\* length r over C, without duplicates, each has its parent of the round
\* before as its first r - 1 elements, and the patterns of earlier rounds
\* are as they were produced.
C9_BreadthFirstGrowth ==
    pc = "search" =>
        LET n == Len(cands)
            C == {cands[i] : i \in 1..n}
        IN  /\ Len(frontier) = Pow(n, round)
            /\ \A j \in 1..Len(frontier) : Len(frontier[j]) = round
            /\ \A i, j \in 1..Len(frontier) : frontier[i] = frontier[j] => i = j
            /\ {frontier[j] : j \in 1..Len(frontier)} = [1..round -> C]
            /\ Len(history) = round
            /\ \A r \in 1..round : history[r].after = history[r].before
            /\ round >= 1 =>
                  \A j \in 1..Len(frontier) :
                      SubSeq(frontier[j], 1, round - 1)
                          = history[round].after[((j - 1) \div n) + 1]

C9_Witness ==
    /\ pc = "search"
    /\ round = 3
    /\ cands = <<Div(2), Plus(3), Mult(2)>>
    /\ Len(frontier) = 27
    /\ frontier[27] = <<Mult(2), Mult(2), Mult(2)>>

=============================================================================
